---- MODULE Spec2Model ----
(***************************************************************************)
(* Connect Four game server (src/unnamed/part_000, the server with chat;   *)
(* src/server.js is the older variant without reset-game and chat).        *)
(*                                                                         *)
(* The server keeps one global `game` object and reacts to three kinds of  *)
(* events, each handled to completion before the next one (Node's single   *)
(* threaded event loop): a new connection, a message on a connection, and  *)
(* the close of a connection.  Every handler is modelled as a function     *)
(* from the server state to the server state; the actions apply them.      *)
(***************************************************************************)
EXTENDS Integers, Sequences, FiniteSets, TLC

\* game, ws, sent, lastMover, alive: the server of src/unnamed/part_000.
\* server: the server of src/server.js, as a record; it gets events in the
\* side-by-side specification only, and stays as constructed in the others.
VARIABLES game, ws, sent, lastMover, alive, server

vars == <<game, ws, sent, lastMover, alive, server>>

\* ------------------------------------------------------------ constants

PLAYER1 == "Player1"
PLAYER2 == "Player2"
MAX_PLAYERS == 2

MESSAGE_TYPES ==
  [PLAYER_ASSIGNMENT |-> "player-assignment",
   GAME_STATE        |-> "game-state",
   GAME_FULL         |-> "game-full",
   MOVE              |-> "move",
   UPDATE            |-> "update",
   GAME_OVER         |-> "game-over",
   RESET_GAME        |-> "reset-game",
   CHAT              |-> "chat",
   CHAT_MESSAGE      |-> "chat-message"]

GAME_STATUS ==
  [WAITING   |-> "waiting",
   ONGOING   |-> "ongoing",
   WIN       |-> "win",
   DRAW      |-> "draw",
   ABANDONED |-> "abandoned"]

\* JavaScript's null and undefined: the value of an empty cell, of game.winner
\* when there is none, and of ws.playerId on a connection that got no seat.
Null == "null"

ROWS == 6
COLS == 7

\* readyState of a server-side socket: OPEN when 'connection' fires, CLOSED
\* when 'close' fires.
OPEN == "OPEN"
CLOSED == "CLOSED"

\* --------------------------------------------------------------- bounds

\* Connections the server sees in one run; they are numbered in the order in
\* which they arrive.
MaxChannels == 3

\* Pieces on the board beyond which no further move of an opening is played
\* (the endgame specification plays its late positions to the full board).
MaxPieces == 3

\* Cells left empty in the scripted positions the endgame specification
\* starts from.
MaxFree == 7

\* Connections made in the long lifecycle specification.
MaxJoins == 4

\* --------------------------------------------------------- board engine

createEmptyBoard == [r \in 0..5 |-> [c \in 0..6 |-> Null]]

\* Mutant of isValidMove: the top cell of the column is not looked at.
isValidMove_BoundsOnly(g, column) ==
  IF column < 0 \/ column >= 7 THEN FALSE
  ELSE TRUE

isValidMove(g, column) ==
  IF column < 0 \/ column >= 7 THEN FALSE
  ELSE g.board[0][column] = Null

\* Mutant of makeMoveRow: the loop runs from the top row down.
makeMoveRow_FromTop(board, column, row) ==
  LET empties == {r \in 0..row : board[r][column] = Null}
  IN  IF empties = {} THEN -1
      ELSE CHOOSE r \in empties : \A r2 \in empties : r <= r2

\* Mutant of makeMoveRow: the loop stops before the top row (`row > 0`).
makeMoveRow_SkipsTop(board, column, row) ==
  LET empties == {r \in 1..row : board[r][column] = Null}
  IN  IF empties = {} THEN -1
      ELSE CHOOSE r \in empties : \A r2 \in empties : r >= r2

\* The loop of makeMove: the first row, from row 5 (the bottom) upwards, whose
\* cell in the column is empty; -1 when the loop runs out.
RECURSIVE makeMoveRow(_, _, _)
makeMoveRow(board, column, row) ==
  IF row < 0 THEN -1
  ELSE IF board[row][column] = Null THEN row
  ELSE makeMoveRow(board, column, row - 1)

\* makeMove's return value.
makeMoveReturns(g, column) == makeMoveRow(g.board, column, 5) >= 0

makeMove(g, column, player) ==
  LET row == makeMoveRow(g.board, column, 5)
  IN  IF row >= 0 THEN [g EXCEPT !.board[row][column] = player] ELSE g

\* Mutant of directions: the down-left diagonal is left out.
directions_NoDownLeft == << <<0, 1>>, <<1, 0>>, <<1, 1>>, <<1, 1>> >>

directions == << <<0, 1>>, <<1, 0>>, <<1, 1>>, <<1, -1>> >>

\* The inner loop of checkWinCondition, for i = 1, 2, 3: the count of
\* consecutive cells of `player` from (r, c) in direction (dr, dc), stopping
\* at the first cell that is off the board or not the player's.
RECURSIVE countFrom(_, _, _, _, _, _, _, _)
countFrom(board, player, r, c, dr, dc, i, count) ==
  IF i >= 4 THEN count
  ELSE LET nr == r + dr * i
           nc == c + dc * i
       IN  IF nr >= 0 /\ nr < ROWS /\ nc >= 0 /\ nc < COLS
              /\ board[nr][nc] = player
           THEN countFrom(board, player, r, c, dr, dc, i + 1, count + 1)
           ELSE count

\* The three nested loops of checkWinCondition, flattened: step k looks at row
\* k \div 28, column (k \div 4) % 7 and direction k % 4, in the order of the
\* code.  winAt is the test `count >= 4` of step k.
winAt(board, k) ==
  LET r == k \div (COLS * 4)
      c == (k \div 4) % COLS
      d == directions[(k % 4) + 1]
      player == board[r][c]
  IN  /\ player # Null
      /\ countFrom(board, player, r, c, d[1], d[2], 1, 1) >= 4

\* The player of the first step of the scan that finds four in a row (where
\* the code returns), or Null when the loops run to their end.
scanWin(board) ==
  LET hits == {k \in 0..(ROWS * COLS * 4 - 1) : winAt(board, k)}
  IN  IF hits = {} THEN Null
      ELSE LET first == CHOOSE k \in hits : \A j \in hits : k <= j
           IN  board[first \div (COLS * 4)][(first \div 4) % COLS]

\* Mutant of checkWinCondition: the win goes to the other identity.
checkWinCondition_OtherWinner(g) ==
  LET w == scanWin(g.board)
  IN  IF w # Null
      THEN [g EXCEPT !.status = GAME_STATUS.WIN,
                     !.winner = IF w = PLAYER1 THEN PLAYER2 ELSE PLAYER1]
      ELSE IF \A r \in 0..5 : \A c \in 0..6 : g.board[r][c] # Null
      THEN [g EXCEPT !.status = GAME_STATUS.DRAW, !.winner = Null]
      ELSE g

\* Mutant of checkWinCondition: a win does not record the winner.
checkWinCondition_NoWinner(g) ==
  LET w == scanWin(g.board)
  IN  IF w # Null
      THEN [g EXCEPT !.status = GAME_STATUS.WIN]
      ELSE IF \A r \in 0..5 : \A c \in 0..6 : g.board[r][c] # Null
      THEN [g EXCEPT !.status = GAME_STATUS.DRAW, !.winner = Null]
      ELSE g

checkWinCondition(g) ==
  LET w == scanWin(g.board)
  IN  IF w # Null
      THEN [g EXCEPT !.status = GAME_STATUS.WIN, !.winner = w]
      ELSE IF \A r \in 0..5 : \A c \in 0..6 : g.board[r][c] # Null
      THEN [g EXCEPT !.status = GAME_STATUS.DRAW, !.winner = Null]
      ELSE g

\* A column value of a move message is modelled by an integer: every other
\* JavaScript value either indexes the row like an integer in 0..6 ("3", [3])
\* or fails the test `game.board[0][column] === null` like an integer outside
\* 0..6 (undefined, null, 2.5, "x").

fullGameReset(g) ==
  [board         |-> createEmptyBoard,
   currentPlayer |-> PLAYER1,
   status        |-> GAME_STATUS.WAITING,
   players       |-> << >>,
   winner        |-> Null]

\* ------------------------------------------------------------ broadcast

\* Mutant of stateMessage: the message type is update whatever the status.
stateMessage_AlwaysUpdate(g, to) ==
  [to            |-> to,
   type          |-> MESSAGE_TYPES.UPDATE,
   board         |-> g.board,
   currentPlayer |-> g.currentPlayer,
   status        |-> g.status,
   winner        |-> g.winner]

\* The payload broadcastGameState builds, as sent to connection `to`.
stateMessage(g, to) ==
  [to            |-> to,
   type          |-> IF g.status = GAME_STATUS.ONGOING \/ g.status = GAME_STATUS.WAITING
                     THEN MESSAGE_TYPES.UPDATE
                     ELSE MESSAGE_TYPES.GAME_OVER,
   board         |-> g.board,
   currentPlayer |-> g.currentPlayer,
   status        |-> g.status,
   winner        |-> g.winner]

\* Mutant of reached: the first send that throws ends the loop.
reached_UntilThrow(g, w) ==
  LET open   == SelectSeq(g.players, LAMBDA p : w[p.ws].readyState = OPEN)
      throws == {i \in 1..Len(open) : w[open[i].ws].sendThrows}
      first  == IF throws = {} THEN Len(open) + 1
                ELSE CHOOSE i \in throws : \A j \in throws : i <= j
  IN  SubSeq(open, 1, first - 1)

\* The entries of game.players a broadcast reaches: the forEach loop tries the
\* entries whose socket is OPEN, each send in a try/catch of its own, so a send
\* that throws is caught and the loop goes on with the next entry.
reached(g, w) ==
  LET open == SelectSeq(g.players, LAMBDA p : w[p.ws].readyState = OPEN)
  IN  SelectSeq(open, LAMBDA p : ~w[p.ws].sendThrows)

\* The messages broadcastGameState sends, in order: one to every entry of
\* game.players whose socket is OPEN and takes the send.
broadcastGameState(g, w) ==
  LET to == reached(g, w)
  IN  [i \in 1..Len(to) |-> stateMessage(g, to[i].ws)]

broadcastChatMessage(g, w, senderId, text) ==
  LET to == reached(g, w)
  IN  [i \in 1..Len(to) |->
         [to     |-> to[i].ws,
          type   |-> MESSAGE_TYPES.CHAT_MESSAGE,
          sender |-> senderId,
          text   |-> text]]

errorMessage(to, message) == [to |-> to, type |-> "error", message |-> message]

\* Mutant of playerInitiatedReset: the new game starts whoever is present.
playerInitiatedReset_AlwaysOngoing(g) ==
  [g EXCEPT !.board = createEmptyBoard,
            !.currentPlayer = PLAYER1,
            !.winner = Null,
            !.status = GAME_STATUS.ONGOING]

\* Mutant of playerInitiatedReset: the current player is left as it was.
playerInitiatedReset_KeepsTurn(g) ==
  [g EXCEPT !.board = createEmptyBoard,
            !.winner = Null,
            !.status = IF Len(g.players) = MAX_PLAYERS
                       THEN GAME_STATUS.ONGOING
                       ELSE GAME_STATUS.WAITING]

\* The state part of playerInitiatedReset; its broadcast is sent by the caller
\* of this operator (onMessage) from the state it returns.
playerInitiatedReset(g) ==
  [g EXCEPT !.board = createEmptyBoard,
            !.currentPlayer = PLAYER1,
            !.winner = Null,
            !.status = IF Len(g.players) = MAX_PLAYERS
                       THEN GAME_STATUS.ONGOING
                       ELSE GAME_STATUS.WAITING]

\* ----------------------------------------------------------- connection

\* Mutants of connectionRejects: only an ongoing game rejects; only more than
\* MAX_PLAYERS players reject.
connectionRejects_OnlyOngoing(g) ==
  Len(g.players) >= MAX_PLAYERS /\ g.status = GAME_STATUS.ONGOING

connectionRejects_MoreThanMax(g) ==
  Len(g.players) > MAX_PLAYERS /\ g.status # GAME_STATUS.WAITING

\* The guard of the reject branch of wss.on('connection').
connectionRejects(g) ==
  Len(g.players) >= MAX_PLAYERS /\ g.status # GAME_STATUS.WAITING

\* The seat given to an accepted connection.
assignPlayerId(g) == IF Len(g.players) = 0 THEN PLAYER1 ELSE PLAYER2

\* S is the server state [game, ws, sent, lastMover, alive]; the new
\* connection is number Len(S.ws) + 1.  A rejected connection gets game-full
\* and no listeners (the handler returns before ws.on('message')); its
\* ws.playerId stays undefined.
gameFullMessage(to) == [to |-> to, type |-> MESSAGE_TYPES.GAME_FULL]

rejectConnection(S) ==
  [S EXCEPT !.ws   = Append(@, [readyState |-> OPEN, playerId |-> Null, sendThrows |-> FALSE]),
            !.sent = << gameFullMessage(Len(S.ws) + 1) >>]

\* The handler past its reject branch: the seat, the push on game.players, the
\* player-assignment message (built before the game starts, so with the status
\* as it was), then the start of the game and the broadcast.
acceptConnection(S) ==
  LET ch == Len(S.ws) + 1
      g  == S.game
      playerId == assignPlayerId(g)
      w1 == Append(S.ws, [readyState |-> OPEN, playerId |-> playerId, sendThrows |-> FALSE])
      g1 == [g EXCEPT !.players = Append(@, [id |-> playerId, ws |-> ch])]
      assignment ==
        [to            |-> ch,
         type          |-> MESSAGE_TYPES.PLAYER_ASSIGNMENT,
         playerId      |-> playerId,
         board         |-> g1.board,
         currentPlayer |-> g1.currentPlayer,
         status        |-> g1.status]
      starts == Len(g1.players) = MAX_PLAYERS
                /\ g1.status = GAME_STATUS.WAITING
      g2 == IF starts THEN [g1 EXCEPT !.status = GAME_STATUS.ONGOING]
            ELSE g1
      bc == IF starts \/ Len(g1.players) < MAX_PLAYERS
            THEN broadcastGameState(g2, w1)
            ELSE << >>
  IN  [S EXCEPT !.game = g2, !.ws = w1, !.sent = <<assignment>> \o bc]

\* Mutant of onConnection: the reject branch does not return.
onConnection_NoReturn(S) ==
  IF connectionRejects(S.game)
  THEN LET T == acceptConnection(S)
       IN  [T EXCEPT !.sent = << gameFullMessage(Len(S.ws) + 1) >> \o @]
  ELSE acceptConnection(S)

onConnection(S) ==
  IF connectionRejects(S.game) THEN rejectConnection(S) ELSE acceptConnection(S)

\* -------------------------------------------------------------- message

\* String.prototype.trim on a text given as a sequence of characters.
RECURSIVE trimStart(_)
trimStart(t) == IF t # << >> /\ Head(t) = " " THEN trimStart(Tail(t)) ELSE t

RECURSIVE trimEnd(_)
trimEnd(t) ==
  IF t # << >> /\ t[Len(t)] = " " THEN trimEnd(SubSeq(t, 1, Len(t) - 1)) ELSE t

\* Mutant of trim: only the leading spaces are removed.
trim_StartOnly(t) == trimStart(t)

trim(t) == trimEnd(trimStart(t))

\* An inbound payload, after JSON.parse:
\*   parse  "error"  JSON.parse throws;
\*          "null"   the text is the JSON value null;
\*          "object" an object (a number, a string or a boolean behaves like an
\*                   object without a type: no branch of the handler takes it);
\*   type, player, column, text: the fields the handler reads; textIsString is
\*   typeof data.text === 'string'.
Payload(parse, type, player, column, textIsString, text) ==
  [parse |-> parse, type |-> type, player |-> player, column |-> column,
   textIsString |-> textIsString, text |-> text]

\* Mutant of parseThrows: no payload is taken as unparsable.
parseThrows_Never(data) == FALSE

\* JSON.parse(message) throws: the catch branch of the handler runs.
parseThrows(data) == data.parse = "error"

\* Mutant of isMoveCommand: the declared player is not compared.
isMoveCommand_NoActorCheck(g, playerId, data) ==
  /\ data.type = MESSAGE_TYPES.MOVE
  /\ g.currentPlayer = playerId
  /\ g.status = GAME_STATUS.ONGOING

\* Mutant of isMoveCommand: the turn is tested on the declared player, not on
\* the connection's seat.
isMoveCommand_TrustsDeclared(g, playerId, data) ==
  /\ data.type = MESSAGE_TYPES.MOVE
  /\ g.currentPlayer = data.player
  /\ g.status = GAME_STATUS.ONGOING

\* The guard of the move branch of ws.on('message').
isMoveCommand(g, playerId, data) ==
  /\ data.type = MESSAGE_TYPES.MOVE
  /\ data.player = playerId
  /\ g.currentPlayer = playerId
  /\ g.status = GAME_STATUS.ONGOING

\* Mutant of applyMove: the current player is switched after every move.
applyMove_AlwaysSwitch(g, column, playerId) ==
  LET g1 == checkWinCondition(makeMove(g, column, playerId))
  IN  [g1 EXCEPT !.currentPlayer =
                    IF g1.currentPlayer = PLAYER1 THEN PLAYER2 ELSE PLAYER1]

\* The body of the move branch once isValidMove has passed: makeMove,
\* checkWinCondition, and the switch of the current player.
applyMove(g, column, playerId) ==
  LET g1 == checkWinCondition(makeMove(g, column, playerId))
  IN  IF g1.status = GAME_STATUS.ONGOING
      THEN [g1 EXCEPT !.currentPlayer =
                         IF g1.currentPlayer = PLAYER1 THEN PLAYER2 ELSE PLAYER1]
      ELSE g1

\* Mutant of resetAllowed: only a waiting game refuses the reset.
resetAllowed_NotWaiting(g) == g.status # GAME_STATUS.WAITING

\* The guard of the reset inside the reset-game branch.
resetAllowed(g) ==
  \/ g.status = GAME_STATUS.WIN
  \/ g.status = GAME_STATUS.DRAW
  \/ g.status = GAME_STATUS.ABANDONED

\* The guard of the relay inside the chat branch.
chatValid(playerId, data) ==
  /\ data.textIsString
  /\ Len(data.text) > 0
  /\ Len(trim(data.text)) > 0
  /\ data.player = playerId

\* ws.on('message') of connection ch on payload data.  `branch` names the
\* branch of the handler that ran.  A connection without a seat has no
\* listener.  On the JSON value null, `data.type` throws a TypeError out of the
\* listener, which no one catches: the process ends.
onMessage(S, ch, data) ==
  LET g        == S.game
      playerId == S.ws[ch].playerId
      quiet    == [S EXCEPT !.sent = << >>]
  IN  IF playerId = Null
      THEN [state |-> quiet, branch |-> "no-listener"]
      ELSE IF parseThrows(data)
      THEN [state  |-> [S EXCEPT !.sent = << errorMessage(ch, "Invalid message format.") >>],
            branch |-> "parse-error"]
      ELSE IF data.parse = "null"
      THEN [state |-> [quiet EXCEPT !.alive = FALSE], branch |-> "throws"]
      ELSE IF isMoveCommand(g, playerId, data)
      THEN IF isValidMove(g, data.column)
           THEN LET g1 == applyMove(g, data.column, playerId)
                IN  [state  |-> [S EXCEPT !.game = g1,
                                          !.sent = broadcastGameState(g1, S.ws)],
                     branch |-> "move"]
           ELSE [state  |-> [S EXCEPT !.sent = << errorMessage(ch, "Invalid move.") >>],
                 branch |-> "invalid-move"]
      ELSE IF data.type = MESSAGE_TYPES.RESET_GAME
      THEN IF resetAllowed(g)
           THEN LET g1 == playerInitiatedReset(g)
                IN  [state  |-> [S EXCEPT !.game = g1,
                                          !.sent = broadcastGameState(g1, S.ws)],
                     branch |-> "reset"]
           ELSE [state  |-> [S EXCEPT !.sent =
                               << errorMessage(ch, "Game can only be reset when it's over.") >>],
                 branch |-> "reset-refused"]
      ELSE IF data.type = MESSAGE_TYPES.CHAT
      THEN IF chatValid(playerId, data)
           THEN [state  |-> [S EXCEPT !.sent =
                               broadcastChatMessage(g, S.ws, data.player, trim(data.text))],
                 branch |-> "chat"]
           ELSE [state |-> quiet, branch |-> "chat-invalid"]
      ELSE [state |-> quiet, branch |-> "ignored"]

\* ---------------------------------------------------------------- close

\* Array.prototype.findIndex(p => p.id === playerId), 1-based; 0 for -1.
RECURSIVE findIndexFrom(_, _, _)
findIndexFrom(players, playerId, i) ==
  IF i > Len(players) THEN 0
  ELSE IF players[i].id = playerId THEN i
  ELSE findIndexFrom(players, playerId, i + 1)

findIndex(players, playerId) == findIndexFrom(players, playerId, 1)

\* players.splice(i, 1), 1-based.
splice(players, i) ==
  SubSeq(players, 1, i - 1) \o SubSeq(players, i + 1, Len(players))

\* Mutant of handlePlayerDisconnect: no full reset when the last player leaves.
handlePlayerDisconnect_NoFullReset(g, w, playerId) ==
  LET i == findIndex(g.players, playerId)
  IN  IF playerId = Null \/ i = 0
      THEN [game |-> g, sent |-> << >>]
      ELSE LET g1 == [g EXCEPT !.players = splice(@, i)]
               abandons == g1.status = GAME_STATUS.ONGOING
               g2 == IF abandons
                     THEN [g1 EXCEPT !.status = GAME_STATUS.ABANDONED,
                                     !.winner = IF Len(g1.players) = 1
                                                THEN g1.players[1].id
                                                ELSE Null]
                     ELSE g1
               bc == IF abandons THEN broadcastGameState(g2, w) ELSE << >>
           IN  [game |-> g2, sent |-> bc]

\* Mutant of handlePlayerDisconnect: a disconnect abandons a finished game
\* too.
handlePlayerDisconnect_AlwaysAbandons(g, w, playerId) ==
  LET i == findIndex(g.players, playerId)
  IN  IF playerId = Null \/ i = 0
      THEN [game |-> g, sent |-> << >>]
      ELSE LET g1 == [g EXCEPT !.players = splice(@, i)]
               abandons == g1.status # GAME_STATUS.WAITING
               g2 == IF abandons
                     THEN [g1 EXCEPT !.status = GAME_STATUS.ABANDONED,
                                     !.winner = IF Len(g1.players) = 1
                                                THEN g1.players[1].id
                                                ELSE Null]
                     ELSE g1
               bc == IF abandons THEN broadcastGameState(g2, w) ELSE << >>
               g3 == IF Len(g2.players) = 0 /\ g2.status # GAME_STATUS.WAITING
                     THEN fullGameReset(g2)
                     ELSE g2
           IN  [game |-> g3, sent |-> bc]

\* handlePlayerDisconnect(playerId) with the sockets as they are in w; gives
\* the new game and the messages sent.
handlePlayerDisconnect(g, w, playerId) ==
  LET i == findIndex(g.players, playerId)
  IN  IF playerId = Null \/ i = 0
      THEN [game |-> g, sent |-> << >>]
      ELSE LET g1 == [g EXCEPT !.players = splice(@, i)]
               abandons == g1.status = GAME_STATUS.ONGOING
               g2 == IF abandons
                     THEN [g1 EXCEPT !.status = GAME_STATUS.ABANDONED,
                                     !.winner = IF Len(g1.players) = 1
                                                THEN g1.players[1].id
                                                ELSE Null]
                     ELSE g1
               bc == IF abandons THEN broadcastGameState(g2, w) ELSE << >>
               g3 == IF Len(g2.players) = 0 /\ g2.status # GAME_STATUS.WAITING
                     THEN fullGameReset(g2)
                     ELSE g2
           IN  [game |-> g3, sent |-> bc]

\* ws.on('close') of connection ch: the socket is CLOSED when the event
\* fires.  A connection without a seat has no listener.
onClose(S, ch) ==
  LET w1 == [S.ws EXCEPT ![ch].readyState = CLOSED]
  IN  IF S.ws[ch].playerId = Null
      THEN [S EXCEPT !.ws = w1, !.sent = << >>]
      ELSE LET r == handlePlayerDisconnect(S.game, w1, S.ws[ch].playerId)
           IN  [S EXCEPT !.ws = w1, !.game = r.game, !.sent = r.sent]

\* ------------------------------------------------- src/server.js variant
\*
\* The older server of src/server.js, translated from its own code.  Its
\* state is a record [game, ws, sent, alive] of the shape of the other
\* server's: its own game object, its own sockets, the messages its last
\* event sent, and whether its process is up.

server_MAX_PLAYERS == 2

server_MESSAGE_TYPES ==
  [PLAYER_ASSIGNMENT |-> "player-assignment",
   GAME_STATE        |-> "game-state",
   GAME_FULL         |-> "game-full",
   MOVE              |-> "move",
   UPDATE            |-> "update",
   GAME_OVER         |-> "game-over"]

server_GAME_STATUS ==
  [WAITING   |-> "waiting",
   ONGOING   |-> "ongoing",
   WIN       |-> "win",
   DRAW      |-> "draw",
   ABANDONED |-> "abandoned"]

server_ROWS == 6
server_COLS == 7

server_createEmptyBoard == [r \in 0..5 |-> [c \in 0..6 |-> Null]]

server_isValidMove(g, column) ==
  IF column < 0 \/ column >= 7 THEN FALSE
  ELSE g.board[0][column] = Null

\* The loop of makeMove of src/server.js: from row 5 upwards.
RECURSIVE server_makeMoveRow(_, _, _)
server_makeMoveRow(board, column, row) ==
  IF row < 0 THEN -1
  ELSE IF board[row][column] = Null THEN row
  ELSE server_makeMoveRow(board, column, row - 1)

server_makeMove(g, column, player) ==
  LET row == server_makeMoveRow(g.board, column, 5)
  IN  IF row >= 0 THEN [g EXCEPT !.board[row][column] = player] ELSE g

server_directions == << <<0, 1>>, <<1, 0>>, <<1, 1>>, <<1, -1>> >>

RECURSIVE server_countFrom(_, _, _, _, _, _, _, _)
server_countFrom(board, player, r, c, dr, dc, i, count) ==
  IF i >= 4 THEN count
  ELSE LET nr == r + dr * i
           nc == c + dc * i
       IN  IF nr >= 0 /\ nr < server_ROWS /\ nc >= 0 /\ nc < server_COLS
              /\ board[nr][nc] = player
           THEN server_countFrom(board, player, r, c, dr, dc, i + 1, count + 1)
           ELSE count

\* The nested loops of checkWinCondition of src/server.js, flattened as for
\* the other server: step k is row k \div 28, column (k \div 4) % 7,
\* direction k % 4.
server_winAt(board, k) ==
  LET r == k \div (server_COLS * 4)
      c == (k \div 4) % server_COLS
      d == server_directions[(k % 4) + 1]
      player == board[r][c]
  IN  /\ player # Null
      /\ server_countFrom(board, player, r, c, d[1], d[2], 1, 1) >= 4

server_scanWin(board) ==
  LET hits == {k \in 0..(server_ROWS * server_COLS * 4 - 1) : server_winAt(board, k)}
  IN  IF hits = {} THEN Null
      ELSE LET first == CHOOSE k \in hits : \A j \in hits : k <= j
           IN  board[first \div (server_COLS * 4)][(first \div 4) % server_COLS]

server_checkWinCondition(g) ==
  LET w == server_scanWin(g.board)
  IN  IF w # Null
      THEN [g EXCEPT !.status = server_GAME_STATUS.WIN, !.winner = w]
      ELSE IF \A r \in 0..5 : \A c \in 0..6 : g.board[r][c] # Null
      THEN [g EXCEPT !.status = server_GAME_STATUS.DRAW, !.winner = Null]
      ELSE g

server_resetGame(g) ==
  [board         |-> server_createEmptyBoard,
   currentPlayer |-> PLAYER1,
   status        |-> server_GAME_STATUS.WAITING,
   players       |-> << >>,
   winner        |-> Null]

\* broadcastGameState of src/server.js: the payload, and one send, in a
\* try/catch of its own, to every entry of game.players whose socket is OPEN.
server_broadcastGameState(g, w) ==
  LET open == SelectSeq(g.players, LAMBDA p : w[p.ws].readyState = OPEN)
      to   == SelectSeq(open, LAMBDA p : ~w[p.ws].sendThrows)
  IN  [i \in 1..Len(to) |->
         [to            |-> to[i].ws,
          type          |-> IF g.status = server_GAME_STATUS.ONGOING
                               \/ g.status = server_GAME_STATUS.WAITING
                            THEN server_MESSAGE_TYPES.UPDATE
                            ELSE server_MESSAGE_TYPES.GAME_OVER,
          board         |-> g.board,
          currentPlayer |-> g.currentPlayer,
          status        |-> g.status,
          winner        |-> g.winner]]

\* wss.on('connection') of src/server.js; the new connection is number
\* Len(L.ws) + 1.
server_onConnection(L) ==
  LET ch == Len(L.ws) + 1
      g  == L.game
  IN  IF Len(g.players) >= server_MAX_PLAYERS /\ g.status # server_GAME_STATUS.WAITING
      THEN [L EXCEPT !.ws   = Append(@, [readyState |-> OPEN, playerId |-> Null,
                                         sendThrows |-> FALSE]),
                     !.sent = << [to |-> ch, type |-> server_MESSAGE_TYPES.GAME_FULL] >>]
      ELSE LET playerId == IF Len(g.players) = 0 THEN PLAYER1 ELSE PLAYER2
               w1 == Append(L.ws, [readyState |-> OPEN, playerId |-> playerId,
                                   sendThrows |-> FALSE])
               g1 == [g EXCEPT !.players = Append(@, [id |-> playerId, ws |-> ch])]
               assignment ==
                 [to            |-> ch,
                  type          |-> server_MESSAGE_TYPES.PLAYER_ASSIGNMENT,
                  playerId      |-> playerId,
                  board         |-> g1.board,
                  currentPlayer |-> g1.currentPlayer,
                  status        |-> g1.status]
               starts == Len(g1.players) = server_MAX_PLAYERS
                         /\ g1.status = server_GAME_STATUS.WAITING
               g2 == IF starts THEN [g1 EXCEPT !.status = server_GAME_STATUS.ONGOING]
                     ELSE g1
               bc == IF starts \/ Len(g1.players) < server_MAX_PLAYERS
                     THEN server_broadcastGameState(g2, w1)
                     ELSE << >>
           IN  [L EXCEPT !.game = g2, !.ws = w1, !.sent = <<assignment>> \o bc]

\* ws.on('message') of src/server.js for connection ch on payload data (the
\* payload as for the other server).  The handler has the move branch only:
\* any other type falls through without a send.  A connection without a seat
\* has no listener; on the JSON value null `data.type` throws out of the
\* listener and the process ends.
server_onMessage(L, ch, data) ==
  LET g        == L.game
      playerId == L.ws[ch].playerId
      quiet    == [L EXCEPT !.sent = << >>]
  IN  IF playerId = Null THEN quiet
      ELSE IF data.parse = "error"
      THEN [L EXCEPT !.sent = << [to |-> ch, type |-> "error",
                                  message |-> "Invalid message format."] >>]
      ELSE IF data.parse = "null" THEN [quiet EXCEPT !.alive = FALSE]
      ELSE IF /\ data.type = server_MESSAGE_TYPES.MOVE
              /\ data.player = playerId
              /\ g.currentPlayer = playerId
              /\ g.status = server_GAME_STATUS.ONGOING
      THEN IF server_isValidMove(g, data.column)
           THEN LET g1 == server_checkWinCondition(
                            server_makeMove(g, data.column, playerId))
                    g2 == IF g1.status = server_GAME_STATUS.ONGOING
                          THEN [g1 EXCEPT !.currentPlayer =
                                  IF g1.currentPlayer = PLAYER1 THEN PLAYER2
                                  ELSE PLAYER1]
                          ELSE g1
                IN  [L EXCEPT !.game = g2, !.sent = server_broadcastGameState(g2, L.ws)]
           ELSE [L EXCEPT !.sent = << [to |-> ch, type |-> "error",
                                       message |-> "Invalid move."] >>]
      ELSE quiet

\* Mutant of server_handlePlayerDisconnect: the branch for a finished game
\* with a free seat (empty in the code) puts the game back to waiting.
server_handlePlayerDisconnect_WaitsWhenOver(g, w, playerId) ==
  LET i == findIndex(g.players, playerId)
  IN  IF playerId = Null \/ i = 0
      THEN [game |-> g, sent |-> << >>]
      ELSE LET g1 == [g EXCEPT !.players = splice(@, i)]
               abandons == g1.status = server_GAME_STATUS.ONGOING
               g2 == IF abandons
                     THEN [g1 EXCEPT !.status = server_GAME_STATUS.ABANDONED,
                                     !.winner = IF Len(g1.players) = 1
                                                THEN g1.players[1].id
                                                ELSE Null]
                     ELSE g1
               bc == IF abandons THEN server_broadcastGameState(g2, w) ELSE << >>
               g3 == IF Len(g2.players) = 0 /\ g2.status # server_GAME_STATUS.WAITING
                     THEN server_resetGame(g2)
                     ELSE IF /\ Len(g2.players) < server_MAX_PLAYERS
                             /\ g2.status # server_GAME_STATUS.ONGOING
                             /\ g2.status # server_GAME_STATUS.WAITING
                     THEN [g2 EXCEPT !.status = server_GAME_STATUS.WAITING]
                     ELSE g2
           IN  [game |-> g3, sent |-> bc]

\* handlePlayerDisconnect of src/server.js with the sockets as they are in w.
\* The two `else if` branches for a finished game with a free seat hold
\* comments only: they change nothing.
server_handlePlayerDisconnect(g, w, playerId) ==
  LET i == findIndex(g.players, playerId)
  IN  IF playerId = Null \/ i = 0
      THEN [game |-> g, sent |-> << >>]
      ELSE LET g1 == [g EXCEPT !.players = splice(@, i)]
               abandons == g1.status = server_GAME_STATUS.ONGOING
               g2 == IF abandons
                     THEN [g1 EXCEPT !.status = server_GAME_STATUS.ABANDONED,
                                     !.winner = IF Len(g1.players) = 1
                                                THEN g1.players[1].id
                                                ELSE Null]
                     ELSE g1
               bc == IF abandons THEN server_broadcastGameState(g2, w) ELSE << >>
               g3 == IF Len(g2.players) = 0 /\ g2.status # server_GAME_STATUS.WAITING
                     THEN server_resetGame(g2)
                     ELSE g2
           IN  [game |-> g3, sent |-> bc]

\* ws.on('close') of src/server.js for connection ch.
server_onClose(L, ch) ==
  LET w1 == [L.ws EXCEPT ![ch].readyState = CLOSED]
  IN  IF L.ws[ch].playerId = Null
      THEN [L EXCEPT !.ws = w1, !.sent = << >>]
      ELSE LET r == server_handlePlayerDisconnect(L.game, w1, L.ws[ch].playerId)
           IN  [L EXCEPT !.ws = w1, !.game = r.game, !.sent = r.sent]

\* src/server.js after construction.
server_InitState ==
  [game  |-> [board         |-> server_createEmptyBoard,
              currentPlayer |-> PLAYER1,
              status        |-> server_GAME_STATUS.WAITING,
              players       |-> << >>,
              winner        |-> Null],
   ws    |-> << >>,
   sent  |-> << >>,
   alive |-> TRUE]

\* ---------------------------------------------------------- state machine

\* The server state as one record, and the step to a given record.
Cur == [game |-> game, ws |-> ws, sent |-> sent, lastMover |-> lastMover,
        alive |-> alive]

\* lastMover is a history variable: the identity that made the last accepted
\* move of the game on the board, Null when the board is empty.
withLastMover(S, T, mover) ==
  [T EXCEPT !.lastMover = IF T.game.board = createEmptyBoard THEN Null
                          ELSE IF T.game.board # S.game.board THEN mover
                          ELSE S.lastMover]

\* The handlers as steps of the whole server state.
afterConnection(S) == withLastMover(S, onConnection(S), Null)

afterMessage(S, ch, data) ==
  withLastMover(S, onMessage(S, ch, data).state, S.ws[ch].playerId)

afterClose(S, ch) == withLastMover(S, onClose(S, ch), Null)

StepTo(S) ==
  /\ game' = S.game
  /\ ws' = S.ws
  /\ sent' = S.sent
  /\ alive' = S.alive
  /\ lastMover' = S.lastMover
  /\ server' = server

InitState ==
  [game      |-> [board         |-> createEmptyBoard,
                  currentPlayer |-> PLAYER1,
                  status        |-> GAME_STATUS.WAITING,
                  players       |-> << >>,
                  winner        |-> Null],
   ws        |-> << >>,
   sent      |-> << >>,
   lastMover |-> Null,
   alive     |-> TRUE]

\* The server state is record S.
StateIs(S) ==
  /\ game = S.game
  /\ ws = S.ws
  /\ sent = S.sent
  /\ lastMover = S.lastMover
  /\ alive = S.alive

Init == StateIs(InitState) /\ server = server_InitState

\* Inputs of the lifecycle specification.
ColumnInputs == {-1, 2, 3, 7}

TextInputs == { <<" ", "h", "i", " ">>, <<" ">>, << >> }

MovePayloads(columns) ==
  { Payload("object", MESSAGE_TYPES.MOVE, p, c, FALSE, << >>) :
      p \in {PLAYER1, PLAYER2}, c \in columns }

OtherPayloads ==
  { Payload("object", MESSAGE_TYPES.RESET_GAME, Null, 0, FALSE, << >>) }
  \cup { Payload("object", MESSAGE_TYPES.CHAT, p, 0, TRUE, t) :
           p \in {PLAYER1, PLAYER2}, t \in TextInputs }
  \cup { Payload("object", MESSAGE_TYPES.CHAT, PLAYER1, 0, FALSE, << >>),
         Payload("object", "bogus", Null, 0, FALSE, << >>),
         Payload("error", Null, Null, 0, FALSE, << >>),
         Payload("null", Null, Null, 0, FALSE, << >>) }

Payloads == MovePayloads(ColumnInputs) \cup OtherPayloads

Connection ==
  /\ alive
  /\ Len(ws) < MaxChannels
  /\ StepTo(afterConnection(Cur))

Message(ch, data) ==
  /\ alive
  /\ ch \in 1..Len(ws)
  /\ ws[ch].readyState = OPEN
  /\ StepTo(afterMessage(Cur, ch, data))

Close(ch) ==
  /\ alive
  /\ ch \in 1..Len(ws)
  /\ ws[ch].readyState = OPEN
  /\ StepTo(afterClose(Cur, ch))

\* The number of pieces on a board.
Pieces(board) ==
  Cardinality({rc \in (0..5) \X (0..6) : board[rc[1]][rc[2]] # Null})

\* A message the lifecycle specification delivers: any payload, except a move
\* that would put piece number MaxPieces + 1 on the board.
Delivered(ch, data) ==
  IF data.type # MESSAGE_TYPES.MOVE THEN TRUE
  ELSE IF Pieces(game.board) < MaxPieces THEN TRUE
  ELSE onMessage(Cur, ch, data).branch # "move"

Deliver(ch, data) ==
  /\ ch \in 1..Len(ws)
  /\ Delivered(ch, data)
  /\ Message(ch, data)

Next ==
  \/ Connection
  \/ \E ch \in 1..MaxChannels : \E data \in Payloads : Deliver(ch, data)
  \/ \E ch \in 1..MaxChannels : Close(ch)

Spec == Init /\ [][Next]_vars

\* ------------------------------------------------- endgame specification

\* Two complete games (the columns played, Player1 first) in which nobody gets
\* four in a row: 42 moves that fill the board.
DrawGameA ==
  << 1, 5, 6, 5, 6, 4, 5, 1, 0, 6, 0, 4, 1, 5, 2, 4, 1, 3, 3, 2, 6,
     6, 5, 5, 6, 0, 0, 2, 0, 1, 1, 3, 2, 3, 2, 2, 4, 3, 3, 0, 4, 4 >>

DrawGameB ==
  << 2, 6, 3, 4, 2, 4, 0, 0, 0, 4, 2, 5, 5, 6, 5, 2, 5, 1, 3, 6, 3,
     0, 6, 0, 6, 6, 4, 2, 4, 2, 1, 0, 4, 5, 5, 1, 1, 1, 1, 3, 3, 3 >>

\* The server after two connections: connection 1 holds Player1, connection 2
\* holds Player2, and the game is ongoing.
TwoConnected == afterConnection(afterConnection(InitState))

\* The server after the first n moves of a game, each sent by the connection
\* whose turn it is.
RECURSIVE afterMoves(_, _)
afterMoves(moves, n) ==
  IF n = 0 THEN TwoConnected
  ELSE LET S  == afterMoves(moves, n - 1)
           ch == IF S.game.currentPlayer = PLAYER1 THEN 1 ELSE 2
       IN  IF S.alive
           THEN afterMessage(S, ch,
                  Payload("object", MESSAGE_TYPES.MOVE, S.game.currentPlayer,
                          moves[n], FALSE, << >>))
           ELSE S

\* Reachable states of the server late in a game: one of the two games played
\* up to its last MaxFree moves.
InitEndgame ==
  /\ \E moves \in {DrawGameA, DrawGameB} :
        StateIs(afterMoves(moves, Len(moves) - MaxFree))
  /\ server = server_InitState

\* Inputs of the endgame specification: moves to every column, and the other
\* payloads.
EndgamePayloads == MovePayloads((-1)..7) \cup OtherPayloads

\* A message the endgame specification delivers: any payload, except a move
\* that would be applied to a board with more than MaxFree empty cells; on
\* such a board (a new game after a reset) moves are delivered as in the
\* lifecycle specification.
DeliveredEndgame(ch, data) ==
  IF data.type # MESSAGE_TYPES.MOVE THEN TRUE
  ELSE IF Pieces(game.board) >= ROWS * COLS - MaxFree THEN TRUE
  ELSE IF data.column \in ColumnInputs /\ Pieces(game.board) < MaxPieces THEN TRUE
  ELSE onMessage(Cur, ch, data).branch # "move"

DeliverEndgame(ch, data) ==
  /\ ch \in 1..Len(ws)
  /\ DeliveredEndgame(ch, data)
  /\ Message(ch, data)

NextEndgame ==
  \/ Connection
  \/ \E ch \in 1..MaxChannels : \E data \in EndgamePayloads : DeliverEndgame(ch, data)
  \/ \E ch \in 1..MaxChannels : Close(ch)

SpecEndgame == InitEndgame /\ [][NextEndgame]_vars

\* ---------------------------------------------- side-by-side specification

\* The two servers run side by side: every connection, move message and
\* disconnect is given to both, each handling it with its own code from its
\* own state.  The runs start at construction, or late in one of the two
\* scripted games, which each server has played with its own handlers.
BothTo(S, L) ==
  /\ game' = S.game
  /\ ws' = S.ws
  /\ sent' = S.sent
  /\ alive' = S.alive
  /\ lastMover' = S.lastMover
  /\ server' = L

server_TwoConnected == server_onConnection(server_onConnection(server_InitState))

RECURSIVE server_afterMoves(_, _)
server_afterMoves(moves, n) ==
  IF n = 0 THEN server_TwoConnected
  ELSE LET L  == server_afterMoves(moves, n - 1)
           ch == IF L.game.currentPlayer = PLAYER1 THEN 1 ELSE 2
       IN  IF L.alive
           THEN server_onMessage(L, ch,
                  Payload("object", MESSAGE_TYPES.MOVE, L.game.currentPlayer,
                          moves[n], FALSE, << >>))
           ELSE L

InitSideBySide ==
  \/ StateIs(InitState) /\ server = server_InitState
  \/ \E moves \in {DrawGameA, DrawGameB} :
        /\ StateIs(afterMoves(moves, Len(moves) - MaxFree))
        /\ server = server_afterMoves(moves, Len(moves) - MaxFree)

ConnectionBoth ==
  /\ alive /\ server.alive
  /\ Len(ws) < MaxChannels
  /\ BothTo(afterConnection(Cur), server_onConnection(server))

MoveBoth(ch, data) ==
  /\ alive /\ server.alive
  /\ ch \in 1..Len(ws) /\ ch \in 1..Len(server.ws)
  /\ ws[ch].readyState = OPEN /\ server.ws[ch].readyState = OPEN
  /\ DeliveredEndgame(ch, data)
  /\ BothTo(afterMessage(Cur, ch, data), server_onMessage(server, ch, data))

CloseBoth(ch) ==
  /\ alive /\ server.alive
  /\ ch \in 1..Len(ws) /\ ch \in 1..Len(server.ws)
  /\ ws[ch].readyState = OPEN /\ server.ws[ch].readyState = OPEN
  /\ BothTo(afterClose(Cur, ch), server_onClose(server, ch))

NextSideBySide ==
  \/ ConnectionBoth
  \/ \E ch \in 1..MaxChannels : \E data \in MovePayloads((-1)..7) : MoveBoth(ch, data)
  \/ \E ch \in 1..MaxChannels : CloseBoth(ch)

SpecSideBySide == InitSideBySide /\ [][NextSideBySide]_vars

\* ------------------------------------------- long lifecycle specification

\* The server from construction over more connections, with reset requests as
\* the only messages: the board stays empty, and the sequences of joins,
\* disconnects and resets are longer than in the lifecycle specification.
ResetPayloads == {data \in OtherPayloads : data.type = MESSAGE_TYPES.RESET_GAME}

Join ==
  /\ alive
  /\ Len(ws) < MaxJoins
  /\ StepTo(afterConnection(Cur))

NextJoins ==
  \/ Join
  \/ \E ch \in 1..MaxJoins : \E data \in ResetPayloads : Message(ch, data)
  \/ \E ch \in 1..MaxJoins : Close(ch)

SpecJoins == Init /\ [][NextJoins]_vars

\* ------------------------------------------------------ transport faults

\* A send can throw.  During one event the sends to connection f throw (f = 0:
\* no send throws); f is never the connection the event comes from, which the
\* handler answers with sends outside any try/catch.
Faulty(S, f) ==
  IF f \in 1..Len(S.ws) THEN [S EXCEPT !.ws[f].sendThrows = TRUE] ELSE S

\* The server between two events: no send is under way.
Settled(S) ==
  [S EXCEPT !.ws = [i \in 1..Len(S.ws) |-> [S.ws[i] EXCEPT !.sendThrows = FALSE]]]

afterConnectionThrowing(S, f) == Settled(afterConnection(Faulty(S, f)))

afterMessageThrowing(S, ch, data, f) == Settled(afterMessage(Faulty(S, f), ch, data))

afterCloseThrowing(S, ch, f) == Settled(afterClose(Faulty(S, f), ch))

\* The connections whose sends can throw during an event that comes from
\* connection ch (0 for a new connection): none, or an open one other than ch.
Throwing(ch) ==
  {0} \cup {f \in 1..Len(ws) : f # ch /\ ws[f].readyState = OPEN}

\* Inputs of the specification with faults.
FaultPayloads ==
  MovePayloads({3})
  \cup { Payload("object", MESSAGE_TYPES.RESET_GAME, Null, 0, FALSE, << >>),
         Payload("error", Null, Null, 0, FALSE, << >>) }
  \cup { Payload("object", MESSAGE_TYPES.CHAT, p, 0, TRUE, <<" ", "h", "i", " ">>) :
           p \in {PLAYER1, PLAYER2} }

ConnectionThrowing(f) ==
  /\ alive
  /\ Len(ws) < MaxChannels
  /\ f \in Throwing(0)
  /\ StepTo(afterConnectionThrowing(Cur, f))

DeliverThrowing(ch, data, f) ==
  /\ alive
  /\ ch \in 1..Len(ws)
  /\ ws[ch].readyState = OPEN
  /\ f \in Throwing(ch)
  /\ Delivered(ch, data)
  /\ StepTo(afterMessageThrowing(Cur, ch, data, f))

CloseThrowing(ch, f) ==
  /\ alive
  /\ ch \in 1..Len(ws)
  /\ ws[ch].readyState = OPEN
  /\ f \in Throwing(ch)
  /\ StepTo(afterCloseThrowing(Cur, ch, f))

NextFaults ==
  \/ \E f \in 0..MaxChannels : ConnectionThrowing(f)
  \/ \E ch \in 1..MaxChannels : \E data \in FaultPayloads :
       \E f \in 0..MaxChannels : DeliverThrowing(ch, data, f)
  \/ \E ch \in 1..MaxChannels : \E f \in 0..MaxChannels : CloseThrowing(ch, f)

SpecFaults == Init /\ [][NextFaults]_vars

\* ====================================================================
\* Properties
\* ====================================================================

\* Connections whose socket is open: the ones a message or a close can come
\* from.
OpenChannels == {ch \in 1..Len(ws) : ws[ch].readyState = OPEN}

AllMovePayloads == MovePayloads((-1)..7)

AllPayloads == AllMovePayloads \cup OtherPayloads

\* The lowest empty cell of a column: empty, with every cell below occupied.
LowestEmpty(board, r, c) ==
  /\ board[r][c] = Null
  /\ \A r2 \in (r + 1)..5 : board[r2][c] # Null

\* What the transition table asks of a move message for it to be accepted.
MovePrecondition(ch, data) ==
  /\ game.status = GAME_STATUS.ONGOING
  /\ ws[ch].playerId = game.currentPlayer
  /\ data.player = ws[ch].playerId
  /\ data.column \in 0..6
  /\ game.board[0][data.column] = Null

\* C1: a move message changes the board if and only if status is ONGOING,
\* the sender's seat is the turn-owner, the declared actor is the sender's
\* seat and the column is in 0..6 with an empty top cell; and then exactly one
\* cell changes: the lowest empty cell of the column gets the mover's identity.
C1_MoveAppliedIff ==
  alive =>
    \A ch \in OpenChannels : \A data \in AllMovePayloads :
      LET after == afterMessage(Cur, ch, data).game.board
      IN  /\ (after # game.board) <=> MovePrecondition(ch, data)
          /\ MovePrecondition(ch, data) =>
               \E r \in 0..5 :
                  /\ LowestEmpty(game.board, r, data.column)
                  /\ after = [game.board EXCEPT ![r][data.column] = ws[ch].playerId]

\* A move has been applied on top of another piece: column 3 holds Player1's
\* piece at the bottom and Player2's on it.
C1_Witness ==
  /\ game.board[5][3] = PLAYER1
  /\ game.board[4][3] = PLAYER2
  /\ lastMover = PLAYER2
  /\ Len(sent) = 2

\* The entries of game.players as a set of positions, and the connections in
\* the list.
PlayerIndexes == 1..Len(game.players)

Listed(g) == {g.players[i].ws : i \in 1..Len(g.players)}

\* C2: after an accepted move that leaves status ONGOING the turn-owner is the
\* identity that did not move; after one that makes status WIN or DRAW the
\* turn-owner is unchanged; and the mover is never the identity that made the
\* previous accepted move of the game.
C2_TurnAlternation ==
  alive =>
    \A ch \in OpenChannels : \A data \in AllMovePayloads :
      LET T     == afterMessage(Cur, ch, data).game
          mover == ws[ch].playerId
      IN  T.board # game.board =>
            /\ T.status \in {GAME_STATUS.ONGOING, GAME_STATUS.WIN, GAME_STATUS.DRAW}
            /\ T.status = GAME_STATUS.ONGOING =>
                 T.currentPlayer \in {PLAYER1, PLAYER2} \ {mover}
            /\ T.status # GAME_STATUS.ONGOING =>
                 T.currentPlayer = game.currentPlayer
            /\ lastMover # mover

\* Player2's move has just ended the game in a draw; the turn stays with
\* Player2.
C2_Witness ==
  /\ game.status = GAME_STATUS.DRAW
  /\ lastMover = PLAYER2
  /\ game.currentPlayer = PLAYER2
  /\ Len(sent) = 2

\* C3: gravity: in every reachable state every occupied cell above the bottom
\* row has an occupied cell directly below it.
C3_Gravity ==
  \A r \in 0..4 : \A c \in 0..6 :
    game.board[r][c] # Null => game.board[r + 1][c] # Null

\* A column with three pieces stacked.
C3_Witness ==
  /\ game.board[3][3] # Null
  /\ game.board[4][3] # Null
  /\ game.board[5][3] # Null

\* The lines of four cells of the board: along a row, a column, the down-right
\* diagonal and the down-left diagonal.
Lines ==
  {[i \in 0..3 |-> <<r, c + i>>]     : r \in 0..5, c \in 0..3}
  \cup {[i \in 0..3 |-> <<r + i, c>>]     : r \in 0..2, c \in 0..6}
  \cup {[i \in 0..3 |-> <<r + i, c + i>>] : r \in 0..2, c \in 0..3}
  \cup {[i \in 0..3 |-> <<r + i, c - i>>] : r \in 0..2, c \in 3..6}

\* Identity p has four in a row on the board.
HasRun(board, p) ==
  \E line \in Lines : \A i \in 0..3 : board[line[i][1]][line[i][2]] = p

AnyRun(board) == HasRun(board, PLAYER1) \/ HasRun(board, PLAYER2)

BoardFull(board) == \A r \in 0..5 : \A c \in 0..6 : board[r][c] # Null

\* C4: after an accepted move status is WIN iff the board holds four in a row
\* of one identity along a row, a column or a diagonal, DRAW iff the board is
\* full without such a run, and ONGOING otherwise.
C4_TerminalEvaluation ==
  alive =>
    \A ch \in OpenChannels : \A data \in AllMovePayloads :
      LET T == afterMessage(Cur, ch, data).game
      IN  T.board # game.board =>
            /\ T.status = GAME_STATUS.WIN <=> AnyRun(T.board)
            /\ T.status = GAME_STATUS.DRAW <=>
                 (BoardFull(T.board) /\ ~AnyRun(T.board))
            /\ T.status = GAME_STATUS.ONGOING <=>
                 (~BoardFull(T.board) /\ ~AnyRun(T.board))

\* The move that filled the last cell completed a run: WIN on a full board.
C4_Witness ==
  /\ game.status = GAME_STATUS.WIN
  /\ BoardFull(game.board)
  /\ lastMover = PLAYER2

\* C5: the seat identities of the entries of the participant list are
\* pairwise distinct in every reachable state.
C5_DistinctSeats ==
  \A i \in PlayerIndexes : \A j \in PlayerIndexes :
    i # j => game.players[i].id # game.players[j].id

\* C6: the participant list never holds more than 2 participants.
C6_AtMostTwo == Len(game.players) <= 2

\* A connection has just been turned away from a full list.
C6_Witness ==
  /\ Len(game.players) = 2
  /\ Len(sent) = 1
  /\ sent[1].type = MESSAGE_TYPES.GAME_FULL

\* C7 as claimed: a connection is given a seat and added to the participant
\* list (a Join is accepted) only in a state with fewer than 2 participants
\* and status WAITING; in any other state it adds no participant.
C7_JoinOnlyWhenWaiting ==
  alive =>
    LET T == afterConnection(Cur)
    IN  T.game.players # game.players =>
          (Len(game.players) < 2 /\ game.status = GAME_STATUS.WAITING)

\* C7 as amended: a connection is given a seat and added to the participant
\* list only in a state with fewer than 2 participants, whatever the status;
\* with 2 participants present a connection adds nobody.
C7_JoinNeedsFreeSeat ==
  alive =>
    LET T == afterConnection(Cur)
    IN  /\ T.game.players # game.players => Len(game.players) < 2
        /\ Len(game.players) = 2 => T.game.players = game.players
        /\ T.game.players # game.players =>
              /\ Len(T.game.players) = Len(game.players) + 1
              /\ T.ws[Len(T.ws)].playerId # Null
              /\ Len(T.ws) \in Listed(T.game)

\* A Join was accepted after the game had been abandoned: two participants,
\* status still ABANDONED.
C7_Witness ==
  /\ Len(game.players) = 2
  /\ game.status = GAME_STATUS.ABANDONED
  /\ Len(sent) = 1
  /\ sent[1].type = MESSAGE_TYPES.PLAYER_ASSIGNMENT

\* Connections without a seat: the rejected ones.
Unseated(w) == {ch \in 1..Len(w) : w[ch].playerId = Null}

\* The states every event of state S can lead to.
Successors(S) ==
  (IF Len(S.ws) < MaxChannels THEN {afterConnection(S)} ELSE {})
  \cup {afterMessage(S, ch, data) :
          ch \in {c \in 1..Len(S.ws) : S.ws[c].readyState = OPEN},
          data \in AllPayloads}
  \cup {afterClose(S, ch) :
          ch \in {c \in 1..Len(S.ws) : S.ws[c].readyState = OPEN}}

\* C8: a connection arriving while 2 participants are present and status is
\* not WAITING gets exactly one game-full message and nothing else, then or
\* later; it is never in the participant list; its arrival changes nothing of
\* the game and sends nothing to the participants; and no later message or
\* close from it changes the game.
C8_RejectedConnection ==
  alive =>
    /\ (Len(game.players) = 2 /\ game.status # GAME_STATUS.WAITING
        /\ Len(ws) < MaxChannels) =>
         LET T == afterConnection(Cur)
         IN  /\ T.game = game
             /\ T.sent = << gameFullMessage(Len(ws) + 1) >>
             /\ Len(ws) + 1 \in Unseated(T.ws)
    /\ \A ch \in Unseated(ws) :
         /\ ch \notin Listed(game)
         /\ \A i \in 1..Len(sent) :
              sent[i].to = ch =>
                (sent = << gameFullMessage(ch) >> /\ ch = Len(ws))
         /\ \A T \in Successors(Cur) :
              /\ ch \in Unseated(T.ws)
              /\ ch \notin Listed(T.game)
              /\ \A i \in 1..Len(T.sent) : T.sent[i].to # ch
         /\ ws[ch].readyState = OPEN =>
              /\ \A data \in AllPayloads :
                   LET T == afterMessage(Cur, ch, data)
                   IN  T.game = game /\ T.sent = << >> /\ T.alive
              /\ LET T == afterClose(Cur, ch)
                 IN  T.game = game /\ T.sent = << >> /\ T.alive

\* A rejected connection has closed, and both participants are still seated
\* in an ongoing game.
C8_Witness ==
  /\ Len(ws) = 3
  /\ ws[3].playerId = Null
  /\ ws[3].readyState = CLOSED
  /\ Len(game.players) = 2
  /\ game.status = GAME_STATUS.ONGOING

\* C9: status ONGOING implies exactly 2 participants, and status WAITING
\* implies fewer than 2.
C9_StatusMatchesCount ==
  /\ game.status = GAME_STATUS.ONGOING => Len(game.players) = 2
  /\ game.status = GAME_STATUS.WAITING => Len(game.players) < 2

\* A reset with one participant left has put the session back to WAITING with
\* that participant still seated.
C9_Witness ==
  /\ game.status = GAME_STATUS.WAITING
  /\ Len(game.players) = 1
  /\ Len(sent) = 1
  /\ sent[1].type = MESSAGE_TYPES.UPDATE
  /\ \E ch \in 1..Len(ws) : ws[ch].readyState = CLOSED /\ ws[ch].playerId # Null

\* C10: when a participant disconnects while status is ONGOING, status
\* becomes ABANDONED, winner is the identity of the remaining participant and
\* a game-over message is sent to the remaining participant; when a
\* participant disconnects while status is WIN, DRAW or ABANDONED and another
\* remains, status, winner, board and turn-owner are unchanged.
C10_Disconnect ==
  alive =>
    \A i \in PlayerIndexes :
      LET ch   == game.players[i].ws
          rest == {j \in PlayerIndexes : j # i}
          T    == afterClose(Cur, ch)
      IN  ws[ch].readyState = OPEN =>
            /\ game.status = GAME_STATUS.ONGOING =>
                 /\ T.game.status = GAME_STATUS.ABANDONED
                 /\ \A j \in rest :
                      /\ T.game.winner = game.players[j].id
                      /\ \E k \in 1..Len(T.sent) :
                           /\ T.sent[k].to = game.players[j].ws
                           /\ T.sent[k].type = MESSAGE_TYPES.GAME_OVER
                 /\ rest = {} => T.game.winner = Null
            /\ (game.status \in {GAME_STATUS.WIN, GAME_STATUS.DRAW,
                                 GAME_STATUS.ABANDONED} /\ rest # {}) =>
                 /\ T.game.status = game.status
                 /\ T.game.winner = game.winner
                 /\ T.game.board = game.board
                 /\ T.game.currentPlayer = game.currentPlayer

\* C11: whenever the participant list is empty the session is in its initial
\* state; and in every state with status WAITING the board is empty, winner is
\* null and the turn-owner is Player1.
C11_WaitingIsFresh ==
  /\ Len(game.players) = 0 => game = InitState.game
  /\ game.status = GAME_STATUS.WAITING =>
        /\ game.board = createEmptyBoard
        /\ game.winner = Null
        /\ game.currentPlayer = PLAYER1

\* Both players of a started game have left: the participant list is empty
\* after a full reset.
C11_Witness ==
  /\ Len(ws) >= 2
  /\ ws[1].playerId = PLAYER1 /\ ws[1].readyState = CLOSED
  /\ ws[2].playerId = PLAYER2 /\ ws[2].readyState = CLOSED
  /\ Len(game.players) = 0

\* Connections with a seat whose socket is open: the ones whose messages the
\* server processes.
SeatedChannels == {ch \in OpenChannels : ws[ch].playerId # Null}

ResetPayload == Payload("object", MESSAGE_TYPES.RESET_GAME, Null, 0, FALSE, << >>)

Terminal == {GAME_STATUS.WIN, GAME_STATUS.DRAW, GAME_STATUS.ABANDONED}

\* The state a reset request must leave behind, from game g.
ResetOutcome(g, T) ==
  /\ T.board = createEmptyBoard
  /\ T.winner = Null
  /\ T.currentPlayer = PLAYER1
  /\ T.players = g.players
  /\ T.status = IF Len(g.players) = 2 THEN GAME_STATUS.ONGOING
                ELSE GAME_STATUS.WAITING

\* C12: a reset request processed while status is WIN, DRAW or ABANDONED
\* rebuilds an empty board, clears the winner, gives the turn to Player1,
\* leaves the participant list unchanged, sets status to ONGOING with 2
\* participants in the list and to WAITING otherwise, and sends the new state
\* to every participant of the list.
C12_Reset ==
  alive =>
    \A ch \in SeatedChannels :
      LET T == afterMessage(Cur, ch, ResetPayload)
      IN  game.status \in Terminal =>
            /\ ResetOutcome(game, T.game)
            /\ T.sent = [i \in 1..Len(game.players) |->
                           stateMessage(T.game, game.players[i].ws)]

\* The commands the transition table rejects: a move without its precondition
\* and a reset request while status is WAITING or ONGOING.
RejectedCommands(ch) ==
  {data \in AllMovePayloads : ~MovePrecondition(ch, data)}
  \cup (IF game.status \in Terminal THEN {} ELSE {ResetPayload})

\* C13: a rejected command (a move by the non-turn-owner, with a declared
\* actor other than the sender's seat, to a full or out-of-range column, or
\* while status is not ONGOING; a reset request while status is WAITING or
\* ONGOING) leaves board, turn-owner, status, winner and participant list
\* unchanged and sends nothing to anyone but the sender; repeating it gives
\* the same outcome.
C13_RejectedNoEffect ==
  alive =>
    \A ch \in SeatedChannels : \A data \in RejectedCommands(ch) :
      LET T  == afterMessage(Cur, ch, data)
          T2 == afterMessage(T, ch, data)
      IN  /\ T.game = game
          /\ \A i \in 1..Len(T.sent) : T.sent[i].to = ch
          /\ T.alive
          /\ T2.game = T.game
          /\ T2.sent = T.sent

\* A move to a full column has just been refused in an ongoing game.
C13_Witness ==
  /\ game.status = GAME_STATUS.ONGOING
  /\ \E c \in 0..6 : game.board[0][c] # Null
  /\ Len(sent) = 1
  /\ sent[1].type = "error"
  /\ sent[1].message = "Invalid move."

\* The messages of a handler's output that are error messages to channel ch.
ErrorsTo(out, ch) ==
  {i \in 1..Len(out) : out[i].to = ch /\ out[i].type = "error"}

\* C14: a move sent when it is not the sender's turn, and a move sent while
\* status is not ONGOING, each make the server send an error message to the
\* sender and nothing to anyone else.
C14_RejectedMoveError ==
  alive =>
    \A ch \in SeatedChannels : \A data \in AllMovePayloads :
      LET T == afterMessage(Cur, ch, data)
      IN  (\/ ws[ch].playerId # game.currentPlayer
           \/ game.status # GAME_STATUS.ONGOING) =>
            /\ ErrorsTo(T.sent, ch) # {}
            /\ \A i \in 1..Len(T.sent) : T.sent[i].to = ch

\* The output of a handler is one error message, to channel ch.
OneErrorTo(out, ch) ==
  /\ Len(out) = 1
  /\ out[1].to = ch
  /\ out[1].type = "error"

\* C15: a move by the turn-owner while status is ONGOING into a full column
\* or a column outside 0..6 sends one error message, to the sender only, and
\* so does a reset request while status is WAITING or ONGOING; in both cases
\* the session state is unchanged.
C15_IllegalCommandError ==
  alive =>
    \A ch \in SeatedChannels :
      /\ \A data \in AllMovePayloads :
            LET T == afterMessage(Cur, ch, data)
            IN  (/\ game.status = GAME_STATUS.ONGOING
                 /\ ws[ch].playerId = game.currentPlayer
                 /\ data.player = ws[ch].playerId
                 /\ (data.column \notin 0..6 \/ game.board[0][data.column] # Null)) =>
                  /\ OneErrorTo(T.sent, ch)
                  /\ T.game = game
      /\ game.status \in {GAME_STATUS.WAITING, GAME_STATUS.ONGOING} =>
            LET T == afterMessage(Cur, ch, ResetPayload)
            IN  /\ OneErrorTo(T.sent, ch)
                /\ T.game = game

\* A reset request has just been refused while a column of the ongoing game
\* is full.
C15_Witness ==
  /\ game.status = GAME_STATUS.ONGOING
  /\ \E c \in 0..6 : game.board[0][c] # Null
  /\ Len(sent) = 1
  /\ sent[1].type = "error"
  /\ sent[1].message = "Game can only be reset when it's over."

\* Payloads that parse to an object whose type is none of move, reset-game
\* and chat.
UnknownPayloads ==
  {data \in OtherPayloads :
     /\ data.parse = "object"
     /\ data.type \notin {MESSAGE_TYPES.MOVE, MESSAGE_TYPES.RESET_GAME,
                          MESSAGE_TYPES.CHAT}}

\* C16: a payload whose declared kind is not recognized makes the server
\* send an error message to the sender, with no change of the session and
\* nothing sent to anyone else.
C16_UnknownKindError ==
  alive =>
    \A ch \in SeatedChannels : \A data \in UnknownPayloads :
      LET T == afterMessage(Cur, ch, data)
      IN  /\ ErrorsTo(T.sent, ch) # {}
          /\ \A i \in 1..Len(T.sent) : T.sent[i].to = ch
          /\ T.game = game

\* Payloads that fail to parse.
UnparsablePayloads == {data \in OtherPayloads : data.parse = "error"}

\* C17: a payload that fails to parse makes the server send exactly one error
\* message, to the sender, and leaves board, turn-owner, status, winner and
\* participant list unchanged.
C17_ParseFailure ==
  alive =>
    \A ch \in SeatedChannels : \A data \in UnparsablePayloads :
      LET T == afterMessage(Cur, ch, data)
      IN  /\ OneErrorTo(T.sent, ch)
          /\ T.game = game
          /\ T.alive

\* The second participant of an ongoing game has just been told that its
\* payload did not parse.
C17_Witness ==
  /\ Len(game.players) = 2
  /\ game.status = GAME_STATUS.ONGOING
  /\ sent = << errorMessage(2, "Invalid message format.") >>

\* Payloads that parse, to the JSON value null.
NullPayloads == {data \in OtherPayloads : data.parse = "null"}

\* C18: no payload makes the handler fault, and a payload that parses to
\* something that is not a kind-tagged object (the JSON value null) is handled
\* as malformed input: the handler completes, the sender gets an error
\* message, the session is unchanged and the server keeps running.
C18_NoFault ==
  alive =>
    \A ch \in SeatedChannels :
      /\ \A data \in AllPayloads : afterMessage(Cur, ch, data).alive
      /\ \A data \in NullPayloads :
            LET T == afterMessage(Cur, ch, data)
            IN  /\ ErrorsTo(T.sent, ch) # {}
                /\ T.game = game

\* C19: winner is non-null only when status is WIN or ABANDONED; status WIN
\* implies a non-null winner; status DRAW, ONGOING or WAITING implies a null
\* winner.
C19_WinnerConsistency ==
  /\ game.winner # Null =>
        game.status \in {GAME_STATUS.WIN, GAME_STATUS.ABANDONED}
  /\ game.status = GAME_STATUS.WIN => game.winner \in {PLAYER1, PLAYER2}
  /\ game.status \in {GAME_STATUS.DRAW, GAME_STATUS.ONGOING,
                       GAME_STATUS.WAITING} => game.winner = Null

\* Player2 has won and Player1 has left since: the winner stays.
C19_Witness ==
  /\ game.status = GAME_STATUS.WIN
  /\ game.winner = PLAYER2
  /\ Len(game.players) = 1
  /\ ws[1].readyState = CLOSED

\* Message m is a state message carrying game g, of the kind that goes with
\* g's status.
CarriesState(m, g) ==
  /\ m.type \in {MESSAGE_TYPES.UPDATE, MESSAGE_TYPES.GAME_OVER}
  /\ m.board = g.board
  /\ m.currentPlayer = g.currentPlayer
  /\ m.status = g.status
  /\ m.winner = g.winner
  /\ m.type = MESSAGE_TYPES.UPDATE <=>
        g.status \in {GAME_STATUS.WAITING, GAME_STATUS.ONGOING}
  /\ m.type = MESSAGE_TYPES.GAME_OVER <=> g.status \in Terminal

\* The output of the event that led to state T is one state message, carrying
\* T's game, to every participant of the list whose socket is open, and
\* nothing else.
BroadcastsState(T) ==
  LET open == {T.game.players[i].ws : i \in 1..Len(T.game.players)}
                \cap {ch \in 1..Len(T.ws) : T.ws[ch].readyState = OPEN}
  IN  /\ \A ch \in open :
            Cardinality({k \in 1..Len(T.sent) : T.sent[k].to = ch}) = 1
      /\ \A k \in 1..Len(T.sent) :
            /\ T.sent[k].to \in open
            /\ CarriesState(T.sent[k], T.game)

\* C20: every accepted move and every accepted reset sends, within the event,
\* one state message to every participant of the list whose socket is open,
\* carrying board, turn-owner, status and winner as they are after the event;
\* its kind is update exactly when that status is WAITING or ONGOING and
\* game-over exactly when it is WIN, DRAW or ABANDONED.
C20_StateBroadcast ==
  alive =>
    \A ch \in SeatedChannels :
      /\ \A data \in AllMovePayloads :
            LET T == afterMessage(Cur, ch, data)
            IN  T.game.board # game.board => BroadcastsState(T)
      /\ game.status \in Terminal =>
            BroadcastsState(afterMessage(Cur, ch, ResetPayload))

\* Player1's move has just won the game: both participants got a game-over
\* message naming the winner.
C20_Witness ==
  /\ game.status = GAME_STATUS.WIN
  /\ lastMover = PLAYER1
  /\ Len(sent) = 2
  /\ \A k \in 1..2 : /\ sent[k].type = MESSAGE_TYPES.GAME_OVER
                       /\ sent[k].winner = PLAYER1

\* The outcome Tf of an event during which the sends to connection f throw,
\* against the outcome T of the same event without a fault: the same session,
\* the same connections, the server still running, and the same messages sent
\* except those to f.
Isolated(T, Tf, f) ==
  /\ Tf.game = T.game
  /\ Tf.ws = T.ws
  /\ Tf.alive = T.alive
  /\ Tf.lastMover = T.lastMover
  /\ Tf.sent = SelectSeq(T.sent, LAMBDA m : m.to # f)

\* C21: a send to one participant that fails during a broadcast does not
\* keep the message from the other participant, does not change the session
\* state, and does not stop the server.
C21_FailedSendIsolated ==
  alive =>
    /\ Len(ws) < MaxChannels =>
          \A f \in Throwing(0) :
            Isolated(afterConnection(Cur), afterConnectionThrowing(Cur, f), f)
    /\ \A ch \in OpenChannels : \A f \in Throwing(ch) :
          /\ \A data \in FaultPayloads :
                Isolated(afterMessage(Cur, ch, data),
                         afterMessageThrowing(Cur, ch, data, f), f)
          /\ Isolated(afterClose(Cur, ch), afterCloseThrowing(Cur, ch, f), f)

\* A broadcast of the game state has reached one of the two participants of
\* the list, both with an open socket, and not the other.
C21_Witness ==
  /\ Len(game.players) = 2
  /\ \A i \in PlayerIndexes : ws[game.players[i].ws].readyState = OPEN
  /\ Len(sent) = 1
  /\ sent[1].type \in {MESSAGE_TYPES.UPDATE, MESSAGE_TYPES.GAME_OVER}
  /\ sent[1].to = game.players[2].ws

\* The seat-assignment messages of a handler's output, as positions.
Assignments(out) ==
  {k \in 1..Len(out) : out[k].type = MESSAGE_TYPES.PLAYER_ASSIGNMENT}

\* C22: the seat-assignment message of an accepted Join carries the session
\* state as it is after the Join: board, turn-owner and status, so ONGOING when
\* the joiner fills the second seat of a WAITING session.
C22_AssignmentCarriesState ==
  (alive /\ Len(ws) < MaxChannels) =>
    LET T == afterConnection(Cur)
    IN  \A k \in Assignments(T.sent) :
          /\ T.sent[k].board = T.game.board
          /\ T.sent[k].currentPlayer = T.game.currentPlayer
          /\ T.sent[k].status = T.game.status

\* C23: on every accepted Join exactly one seat-assignment message is sent, to
\* the joining connection only, before any state message of that join; and
\* when the join brings a WAITING session to 2 participants, status becomes
\* ONGOING and an update is sent to both participants.
C23_JoinMessages ==
  alive =>
    LET T  == afterConnection(Cur)
        ch == Len(ws) + 1
    IN  T.game.players # game.players =>
          /\ Assignments(T.sent) = {1}
          /\ T.sent[1].to = ch
          /\ T.sent[1].playerId = T.ws[ch].playerId
          /\ (game.status = GAME_STATUS.WAITING /\ Len(T.game.players) = 2) =>
                /\ T.game.status = GAME_STATUS.ONGOING
                /\ \A i \in 1..2 :
                      \E k \in 2..Len(T.sent) :
                        /\ T.sent[k].to = T.game.players[i].ws
                        /\ T.sent[k].type = MESSAGE_TYPES.UPDATE
                        /\ T.sent[k].status = GAME_STATUS.ONGOING

\* Chat submissions.
ChatPayloads == {data \in OtherPayloads : data.type = MESSAGE_TYPES.CHAT}

\* Text t without its leading and trailing spaces.
Trimmed(t) ==
  LET solid == {i \in 1..Len(t) : t[i] # " "}
  IN  IF solid = {} THEN << >>
      ELSE SubSeq(t, CHOOSE i \in solid : \A j \in solid : i <= j,
                     CHOOSE i \in solid : \A j \in solid : i >= j)

\* The participants of the list whose socket is open.
ListedOpen == Listed(game) \cap OpenChannels

\* C24: a chat submission with non-blank string text whose declared actor is
\* the sender's seat is relayed, trimmed, as one chat-message to every
\* participant with an open socket; a chat submission with blank or non-string
\* text or another declared actor relays nothing; and no chat submission
\* changes board, turn-owner, status, winner or participant list.
C24_ChatRelay ==
  alive =>
    \A ch \in SeatedChannels : \A data \in ChatPayloads :
      LET T     == afterMessage(Cur, ch, data)
          valid == /\ data.textIsString
                   /\ Trimmed(data.text) # << >>
                   /\ data.player = ws[ch].playerId
      IN  /\ T.game = game
          /\ T.ws = ws
          /\ ~valid => T.sent = << >>
          /\ valid =>
                /\ \A to \in ListedOpen :
                      Cardinality({k \in 1..Len(T.sent) : T.sent[k].to = to}) = 1
                /\ \A k \in 1..Len(T.sent) :
                      /\ T.sent[k].to \in ListedOpen
                      /\ T.sent[k].type = MESSAGE_TYPES.CHAT_MESSAGE
                      /\ T.sent[k].sender = data.player
                      /\ T.sent[k].text = Trimmed(data.text)

\* A chat text has been relayed, trimmed, to both participants of a finished
\* game.
C24_Witness ==
  /\ game.status \in Terminal
  /\ Len(sent) = 2
  /\ \A k \in 1..2 : /\ sent[k].type = MESSAGE_TYPES.CHAT_MESSAGE
                       /\ sent[k].text = <<"h", "i">>

\* C25: in every state with status ONGOING some connected participant can
\* make an accepted move: the turn-owner identity is held by a participant of
\* the list whose socket is open, some column is playable, and a move of that
\* participant to that column is applied.
C25_OngoingCanProgress ==
  (alive /\ game.status = GAME_STATUS.ONGOING) =>
    \E ch \in ListedOpen : \E data \in AllMovePayloads :
      /\ ws[ch].playerId = game.currentPlayer
      /\ data.column \in 0..6
      /\ game.board[0][data.column] = Null
      /\ afterMessage(Cur, ch, data).game.board # game.board

\* C26: after the disconnect of a seated connection the participant list no
\* longer holds it and still holds every other listed connection; and in every
\* state the participant list holds exactly the seated connections whose
\* socket is open.
C26_ListIsOpenSeated ==
  alive =>
    /\ Listed(game) = SeatedChannels
    /\ \A ch \in SeatedChannels :
          LET T == afterClose(Cur, ch)
          IN  /\ ch \notin Listed(T.game)
              /\ Listed(game) \ {ch} \subseteq Listed(T.game)

\* C27: whenever status is WIN the winner is the identity that made the last
\* accepted move, and on every reachable board at most one identity has four
\* in a row.
C27_WinnerIsLastMover ==
  /\ game.status = GAME_STATUS.WIN =>
        /\ game.winner = lastMover
        /\ HasRun(game.board, game.winner)
  /\ ~(HasRun(game.board, PLAYER1) /\ HasRun(game.board, PLAYER2))

\* Player2 has won with cells of the board still empty.
C27_Witness ==
  /\ game.status = GAME_STATUS.WIN
  /\ game.winner = PLAYER2
  /\ lastMover = PLAYER2
  /\ HasRun(game.board, PLAYER2)
  /\ ~BoardFull(game.board)

\* The number of pieces of identity p on a board.
PiecesOf(board, p) ==
  Cardinality({rc \in (0..5) \X (0..6) : board[rc[1]][rc[2]] = p})

\* C28: the number of Player1's pieces minus the number of Player2's pieces
\* is 0 or 1, and while status is ONGOING the turn-owner is Player1 exactly
\* when the two numbers are equal.
C28_PieceParity ==
  LET n1 == PiecesOf(game.board, PLAYER1)
      n2 == PiecesOf(game.board, PLAYER2)
  IN  /\ n1 - n2 \in {0, 1}
      /\ game.status = GAME_STATUS.ONGOING =>
            (game.currentPlayer = PLAYER1 <=> n1 = n2)

\* The first move of a game has been made: one piece, Player2 to move.
C28_Witness ==
  /\ game.status = GAME_STATUS.ONGOING
  /\ PiecesOf(game.board, PLAYER1) = 1
  /\ PiecesOf(game.board, PLAYER2) = 0
  /\ game.currentPlayer = PLAYER2
  /\ lastMover = PLAYER1

\* C29: status changes only along the transitions of the lifecycle table:
\* WAITING to ONGOING only by a join that makes 2 participants; ONGOING to WIN
\* or DRAW only by an accepted move; ONGOING to ABANDONED only by a
\* disconnect; WIN, DRAW or ABANDONED to ONGOING or WAITING only by an accepted
\* reset request or, to WAITING, by the disconnect of the last participant; no
\* other event changes status.
C29_StatusTransitions ==
  alive =>
    /\ LET T == afterConnection(Cur).game
        IN  T.status # game.status =>
              /\ game.status = GAME_STATUS.WAITING
              /\ T.status = GAME_STATUS.ONGOING
              /\ Len(game.players) = 1
              /\ Len(T.players) = 2
    /\ \A ch \in OpenChannels :
          /\ \A data \in AllPayloads :
                LET T == afterMessage(Cur, ch, data).game
                IN  T.status # game.status =>
                      \/ /\ game.status = GAME_STATUS.ONGOING
                         /\ T.status \in {GAME_STATUS.WIN, GAME_STATUS.DRAW}
                         /\ data.type = MESSAGE_TYPES.MOVE
                         /\ T.board # game.board
                      \/ /\ game.status \in Terminal
                         /\ T.status \in {GAME_STATUS.ONGOING, GAME_STATUS.WAITING}
                         /\ data = ResetPayload
          /\ LET T == afterClose(Cur, ch).game
             IN  T.status # game.status =>
                   \/ /\ game.status = GAME_STATUS.ONGOING
                      /\ T.status = GAME_STATUS.ABANDONED
                   \/ /\ game.status \in Terminal
                      /\ T.status = GAME_STATUS.WAITING
                      /\ Len(T.players) = 0

\* A disconnect has ended a game in progress: ABANDONED, with pieces on the
\* board and the remaining participant as winner.
C29_Witness ==
  /\ game.status = GAME_STATUS.ABANDONED
  /\ lastMover # Null
  /\ Len(game.players) = 1
  /\ game.winner = game.players[1].id
  /\ Len(sent) = 1
  /\ sent[1].type = MESSAGE_TYPES.GAME_OVER

\* C30: a piece is put on the board only by a connection that holds the
\* piece's identity: a move message is applied only when it comes from a
\* connection with a seat and declares that seat as its actor, and the piece
\* it places carries that seat's identity.
C30_OwnPiecesOnly ==
  alive =>
    \A ch \in OpenChannels : \A data \in AllMovePayloads :
      LET T == afterMessage(Cur, ch, data).game
      IN  T.board # game.board =>
            /\ ws[ch].playerId \in {PLAYER1, PLAYER2}
            /\ data.player = ws[ch].playerId
            /\ \A r \in 0..5 : \A c \in 0..6 :
                  T.board[r][c] # game.board[r][c] =>
                    T.board[r][c] = ws[ch].playerId

\* Both players have moved while a connection without a seat is open.
C30_Witness ==
  /\ PiecesOf(game.board, PLAYER1) = 1
  /\ PiecesOf(game.board, PLAYER2) = 1
  /\ lastMover = PLAYER2
  /\ \E ch \in OpenChannels : ws[ch].playerId = Null

\* C31: the full-column guard of makeMove is not reachable through the message
\* handler: whenever a message takes the move branch past isValidMove, the
\* loop of makeMove finds an empty cell in the column, makeMove returns true,
\* and the cell it found gets the sender's identity.
C31_DropAlwaysSucceeds ==
  alive =>
    \A ch \in OpenChannels : \A data \in AllMovePayloads :
      onMessage(Cur, ch, data).branch = "move" =>
        LET row == makeMoveRow(game.board, data.column, 5)
        IN  /\ makeMoveReturns(game, data.column)
            /\ row \in 0..5
            /\ game.board[row][data.column] = Null
            /\ makeMove(game, data.column, ws[ch].playerId).board[row][data.column]
                  = ws[ch].playerId

\* The last cell of the board has just been filled: the move went to the one
\* column that was not full, into its top cell, and the game-over message
\* went to both players.
C31_Witness ==
  /\ game.status = GAME_STATUS.DRAW
  /\ \A c \in 0..6 : game.board[0][c] # Null
  /\ lastMover = PLAYER2
  /\ Len(sent) = 2
  /\ \A i \in 1..2 : sent[i].type = MESSAGE_TYPES.GAME_OVER /\ sent[i].board = game.board

\* C32: the servers of src/server.js and src/unnamed/part_000, run side by
\* side on the same connections, move messages and disconnects, are in every
\* state at the same board, turn-owner, status, winner and participant list,
\* with the same sockets, and their last event sent the same messages to the
\* same connections in the same order.
C32_VariantsAgree ==
  /\ server.game.board = game.board
  /\ server.game.currentPlayer = game.currentPlayer
  /\ server.game.status = game.status
  /\ server.game.winner = game.winner
  /\ server.game.players = game.players
  /\ server.ws = ws
  /\ server.sent = sent
  /\ server.alive = alive

\* Both servers have seen joins, moves and a disconnect: each has pieces on
\* its board, an abandoned game won by its one remaining participant, and
\* has just sent that participant the game-over message.
C32_Witness ==
  /\ game.status = GAME_STATUS.ABANDONED
  /\ server.game.status = server_GAME_STATUS.ABANDONED
  /\ Pieces(game.board) > 0 /\ Pieces(server.game.board) > 0
  /\ Len(server.game.players) = 1
  /\ server.game.winner = server.game.players[1].id
  /\ Len(server.sent) = 1 /\ Len(sent) = 1
  /\ server.sent[1].type = server_MESSAGE_TYPES.GAME_OVER
  /\ sent[1].type = MESSAGE_TYPES.GAME_OVER

====
